---- MODULE Spec2Model ----
(***************************************************************************)
(* Model of app5bg.py, the Streamlit background remover.                   *)
(*                                                                         *)
(* Two specifications share this module:                                   *)
(*   Spec      the interactive session: st.session_state and what one      *)
(*             script run renders (uploads, URL preview, the two Process   *)
(*             buttons, the download widgets and the ZIP archives);        *)
(*   PipeSpec  one pass of the body of the loop of process_images, one     *)
(*             statement per step, over inputs drawn from bounded sets.    *)
(*                                                                         *)
(* Images are pixel grids in row-major order, a pixel a tuple of 8-bit     *)
(* channels.  The rembg network is an opaque collaborator: what it answers *)
(* for a file (an alpha matte, or a failure) is carried by the file as the *)
(* field seg.  The Lanczos filter of Image.resize is abstracted to point   *)
(* sampling; the size and mode of its result are those of PIL.             *)
(***************************************************************************)
EXTENDS Integers, Sequences, FiniteSets, TLC

\* ------------------------------------------------------------------ bounds
MaxFiles == 2      \* files in one upload
MaxUrls == 2       \* lines in the URL text area
MaxDim == 2        \* width and height of the images of PipeSpec

\* ------------------------------------------------------- program constants
WHITE_COLOR == <<255, 255, 255>>

BLUE == <<0, 0, 255>>
GREY == <<100, 100, 100>>

\* first byte of the PNG signature, and the PNG colour types of RGB and RGBA
PngMagic == 137
PngRgb == 2
PngRgba == 6

\* ------------------------------------------------------------------ images
NoImage == [mode |-> "none", size |-> <<0, 0>>, px |-> <<>>]

Area(size) == size[1] * size[2]

\* Image.new(mode, size, color)
Image_new(mode, size, color) ==
    [mode |-> mode, size |-> size, px |-> [i \in 1..Area(size) |-> color]]

\* Image.convert('RGB'): an alpha channel is dropped
convert_RGB(image) ==
    [mode |-> "RGB", size |-> image.size,
     px |-> [i \in 1..Area(image.size) |->
                LET p == image.px[i] IN <<p[1], p[2], p[3]>>]]

\* Image.resize(size, LANCZOS): the result has the requested size and the
\* mode of the source; each pixel is sampled from the source grid.
resize(image, size) ==
    LET w == image.size[1]
        h == image.size[2]
        src(i) == LET x == (i - 1) % size[1]
                      y == (i - 1) \div size[1]
                  IN  ((y * h) \div size[2]) * w + ((x * w) \div size[1]) + 1
    IN  [mode |-> image.mode, size |-> size,
         px |-> [i \in 1..Area(size) |-> image.px[src(i)]]]

\* Pillow's DIV255 and BLEND8 (Paste.c)
DIV255(a) == LET tmp == a + 128 IN ((tmp \div 256) + tmp) \div 256

BLEND8(mask, in1, in2) == DIV255(in1 * (255 - mask) + in2 * mask)

\* canvas.paste(image, (0, 0), mask) for an RGB canvas and an image of the
\* same size; masked is TRUE when the image itself is passed as the mask.
paste(canvas, image, masked) ==
    LET blend(q, p) == <<BLEND8(p[4], q[1], p[1]),
                         BLEND8(p[4], q[2], p[2]),
                         BLEND8(p[4], q[3], p[3])>>
        copy(p) == <<p[1], p[2], p[3]>>
    IN  [canvas EXCEPT !.px = [i \in 1..Area(canvas.size) |->
                                  IF masked THEN blend(canvas.px[i], image.px[i])
                                  ELSE copy(image.px[i])]]

\* compress_and_resize pasting without the alpha mask
compress_and_resize_unmasked(image, size) ==
    LET resized == resize(image, size)
        canvas == Image_new("RGB", resized.size, WHITE_COLOR)
    IN  paste(canvas, resized, FALSE)

compress_and_resize(image, size) ==
    LET resized == resize(image, size)
        canvas == Image_new("RGB", resized.size, WHITE_COLOR)
    IN  paste(canvas, resized, resized.mode = "RGBA")

\* rembg.remove: an RGBA cut-out of the size of the input whose alpha channel
\* is the matte the network answers for this input.
remove_background(image, matte) ==
    [mode |-> "RGBA", size |-> image.size,
     px |-> [i \in 1..Area(image.size) |->
                LET p == image.px[i] IN <<p[1], p[2], p[3], matte[i]>>]]

\* add_bg filling its canvas with white whatever the colour
add_bg_white(image, color) ==
    IF image.mode = "RGBA"
    THEN paste(Image_new("RGB", image.size, WHITE_COLOR), image, TRUE)
    ELSE convert_RGB(image)

add_bg(image, color) ==
    IF image.mode = "RGBA"
    THEN paste(Image_new("RGB", image.size, color), image, TRUE)
    ELSE convert_RGB(image)

\* --------------------------------------------------------------------- PNG
Channels(mode) == IF mode = "RGBA" THEN 4 ELSE 3

\* A save for which quality=85 is lossy: every channel loses its low bit
save_PNG_lossy(image) ==
    LET c == Channels(image.mode)
        n == Area(image.size)
    IN  [j \in 1..(4 + n * c) |->
            CASE j = 1 -> PngMagic
              [] j = 2 -> image.size[1]
              [] j = 3 -> image.size[2]
              [] j = 4 -> IF image.mode = "RGBA" THEN PngRgba ELSE PngRgb
              [] OTHER -> (image.px[((j - 5) \div c) + 1][((j - 5) % c) + 1] \div 2) * 2]

\* img.save(buf, "PNG", optimize=True, quality=85): signature, header, then
\* every channel of every pixel; PNG keeps 8-bit channels as they are.
save_PNG(image) ==
    LET c == Channels(image.mode)
        n == Area(image.size)
    IN  [j \in 1..(4 + n * c) |->
            CASE j = 1 -> PngMagic
              [] j = 2 -> image.size[1]
              [] j = 3 -> image.size[2]
              [] j = 4 -> IF image.mode = "RGBA" THEN PngRgba ELSE PngRgb
              [] OTHER -> image.px[((j - 5) \div c) + 1][((j - 5) % c) + 1]]

\* Image.open(f): the decoded image, or a failure when the bytes are no image
Image_open(data) ==
    LET wellFormed ==
            /\ Len(data) >= 4
            /\ data[1] = PngMagic
            /\ data[4] \in {PngRgb, PngRgba}
            /\ Len(data) = 4 + data[2] * data[3] * (IF data[4] = PngRgba THEN 4 ELSE 3)
    IN  IF ~wellFormed
        THEN [ok |-> FALSE, img |-> NoImage]
        ELSE LET c == IF data[4] = PngRgba THEN 4 ELSE 3
                 size == <<data[2], data[3]>>
             IN  [ok |-> TRUE,
                  img |-> [mode |-> IF c = 4 THEN "RGBA" ELSE "RGB",
                           size |-> size,
                           px |-> [i \in 1..Area(size) |->
                                     [k \in 1..c |-> data[4 + (i - 1) * c + k]]]]]

\* io.BytesIO holding data, rewound by buf.seek(0)
BytesIO(data) == [data |-> data, pos |-> 0]

\* ----------------------------------------------------------- process_images
NoItem == [name |-> "", buf |-> BytesIO(<<>>), img |-> NoImage]

\* File names counting from 0
FileName_ZeroBased(base, idx) == base \o "_" \o ToString(idx - 1) \o ".png"

\* f"{base}_{idx}.png"
FileName(base, idx) == base \o "_" \o ToString(idx) \o ".png"

\* One pass of the loop body for the file f at the 1-based position idx.
\* Image.open and remove raise on a file that is no image, or on which the
\* network fails; nothing in process_images catches either.
loop_body(f, idx, base, size, replace_bg, bg_color) ==
    LET opened == Image_open(f.data)
    IN  IF ~opened.ok THEN [ok |-> FALSE, kind |-> "decode", item |-> NoItem]
        ELSE IF ~f.seg.ok THEN [ok |-> FALSE, kind |-> "model", item |-> NoItem]
        ELSE LET img1 == remove_background(opened.img, f.seg.matte)
                 img2 == IF replace_bg THEN add_bg(img1, bg_color) ELSE img1
                 img3 == compress_and_resize(img2, size)
             IN  [ok |-> TRUE, kind |-> "none",
                  item |-> [name |-> FileName(base, idx),
                            buf |-> BytesIO(save_PNG(img3)),
                            img |-> img3]]

\* A branch that composites whatever the setting
after_remove_always(replace_bg) == "add_bg"

\* if replace_bg: the statement that follows remove_background
after_remove(replace_bg) == IF replace_bg THEN "add_bg" ELSE "resize"

\* for idx, f in enumerate(files, 1), from the k-th file on, out holding the
\* results so far
RECURSIVE process_from(_, _, _, _, _, _, _)
process_from(files, k, out, base, size, replace_bg, bg_color) ==
    IF k > Len(files)
    THEN [ok |-> TRUE, kind |-> "none", out |-> out]
    ELSE LET r == loop_body(files[k], k, base, size, replace_bg, bg_color)
         IN  IF ~r.ok
             THEN [ok |-> FALSE, kind |-> r.kind, out |-> <<>>]
             ELSE process_from(files, k + 1, Append(out, r.item),
                               base, size, replace_bg, bg_color)

\* The list process_images returns, or the exception that leaves it
process_images(files, base, size, replace_bg, bg_color) ==
    process_from(files, 1, <<>>, base, size, replace_bg, bg_color)

\* ------------------------------------------------------------------ inputs
Rgb1x1 == [mode |-> "RGB", size |-> <<1, 1>>, px |-> <<GREY>>]
Rgb2x1 == [mode |-> "RGB", size |-> <<2, 1>>, px |-> <<GREY, BLUE>>]
Rgba1x2 == [mode |-> "RGBA", size |-> <<1, 2>>,
            px |-> << <<0, 0, 255, 255>>, <<100, 100, 100, 0>> >>]

NoMatte == [ok |-> FALSE, matte |-> <<>>]
Matte(m) == [ok |-> TRUE, matte |-> m]

\* The files a user may upload: an image with a foreground and a background
\* pixel, an image with an alpha channel of its own and a soft edge, and an
\* image on which the network fails.
UploadChoices ==
    { [name |-> "cat.png", data |-> save_PNG(Rgb2x1), seg |-> Matte(<<255, 0>>)],
      [name |-> "dog.png", data |-> save_PNG(Rgba1x2), seg |-> Matte(<<128, 255>>)],
      [name |-> "dot.png", data |-> save_PNG(Rgb1x1), seg |-> NoMatte] }

\* The lines a user may type with what the network answers for each: exc is
\* an exception of requests.get (a timeout), status the HTTP status.  The
\* last one is served a page that is no image.
UrlChoices ==
    { [url |-> "http://h/pic.png", basename |-> "pic.png", exc |-> FALSE, status |-> 200,
       content |-> save_PNG(Rgba1x2), seg |-> Matte(<<128, 0>>)],
      [url |-> "http://h/gone.png", basename |-> "gone.png", exc |-> FALSE, status |-> 404,
       content |-> <<60, 104, 116>>, seg |-> NoMatte],
      [url |-> "http://slow/", basename |-> "", exc |-> TRUE, status |-> 0,
       content |-> <<>>, seg |-> NoMatte],
      [url |-> "http://h/", basename |-> "", exc |-> FALSE, status |-> 200,
       content |-> <<60, 104, 116>>, seg |-> NoMatte] }

\* The sequences of at most n distinct elements of S
SeqsUpTo(S, n) ==
    {f \in UNION {[1..k -> S] : k \in 0..n} :
        \A i, j \in DOMAIN f : i # j => f[i] # f[j]}

UploadLists == SeqsUpTo(UploadChoices, MaxFiles)
UrlLists == SeqsUpTo(UrlChoices, MaxUrls)

\* What the widgets of one section hold when its Process button is pressed
Settings ==
    { [base |-> "cleaned", size |-> <<1, 2>>, replace_bg |-> FALSE, color |-> WHITE_COLOR],
      [base |-> "url_image", size |-> <<2, 1>>, replace_bg |-> TRUE, color |-> BLUE],
      [base |-> "cleaned", size |-> <<2, 2>>, replace_bg |-> TRUE, color |-> GREY] }

\* ----------------------------------------------------------------- session
VARIABLES
    files,       \* st.session_state["files"]
    raw_urls,    \* st.session_state["raw_urls"]
    proc_urls,   \* st.session_state["proc_urls"]
    proc_files,  \* st.session_state["proc_files"]
    page_urls,   \* what the run rendered under "Processed URL Images"
    page_files,  \* what the run rendered under "Processed Local Images"
    warnings,    \* the st.warning messages of the run
    error,       \* the exception that ended the run, if any
    \* one pass of the loop body of process_images (PipeSpec)
    pc,          \* the statement to run next
    job,         \* the file f and the arguments of process_images
    img,         \* the local variable img
    removed,     \* what remove_background returned
    handed,      \* what compress_and_resize was called with
    stages,      \* the calls made so far, in order
    result       \* the dict appended to out

session == <<files, raw_urls, proc_urls, proc_files, page_urls, page_files, warnings, error>>

pipe == <<pc, job, img, removed, handed, stages, result>>

NoError == [src |-> "none", kind |-> "none"]

\* requests.get, raise_for_status, BytesIO(resp.content); None on any exception
download_image_from_url(u) ==
    IF u.exc \/ u.status >= 400
    THEN [ok |-> FALSE, buf |-> BytesIO(<<>>)]
    ELSE [ok |-> TRUE, buf |-> BytesIO(u.content)]

\* The loop of the Preview handler over the non-blank lines: the buffers kept
\* and the URLs warned about.
RECURSIVE preview_from(_, _, _, _)
preview_from(lines, k, raw, warned) ==
    IF k > Len(lines) THEN [raw |-> raw, warned |-> warned]
    ELSE LET u == lines[k]
             got == download_image_from_url(u)
         IN  IF ~got.ok
             THEN preview_from(lines, k + 1, raw, Append(warned, u.url))
             ELSE preview_from(lines, k + 1,
                      Append(raw, [name |-> IF u.basename # "" THEN u.basename
                                            ELSE "url_" \o ToString(Len(raw) + 1),
                                   data |-> got.buf.data,
                                   seg |-> u.seg]),
                      warned)

NonBlank(u) == u.url # ""

preview_urls(lines) == preview_from(SelectSeq(lines, NonBlank), 1, <<>>, <<>>)

\* An archive whose entries are named by position alone
zip_of_renamed(batch) ==
    [i \in 1..Len(batch) |-> [name |-> "image_" \o ToString(i) \o ".png",
                              data |-> batch[i].buf.data]]

\* zipfile.ZipFile(zipb, "w") and one writestr per stored result
zip_of(batch) ==
    [i \in 1..Len(batch) |-> [name |-> batch[i].name, data |-> batch[i].buf.data]]

\* One st.download_button per stored result
downloads_of(batch) ==
    [i \in 1..Len(batch) |-> [file_name |-> batch[i].name, data |-> batch[i].buf.data]]

NotShown == [shown |-> FALSE, downloads |-> <<>>, zip |-> <<>>]

\* A "Display Processed ..." section: rendered when the run reaches it and
\* the stored batch is not empty.
display(batch, reached) ==
    IF reached /\ batch # <<>>
    THEN [shown |-> TRUE, downloads |-> downloads_of(batch), zip |-> zip_of(batch)]
    ELSE NotShown

\* The rest of a script run: the URL section is displayed unless the URL
\* Process handler raised, the local one unless either handler raised.  The
\* st.image previews of the raw inputs are taken to render whatever they are
\* given; an exception ends a run only inside process_images.
Render(err) ==
    /\ error' = err
    /\ page_urls' = display(proc_urls', err.src # "url")
    /\ page_files' = display(proc_files', err.src = "none")

NoJob == [f |-> [name |-> "", data |-> <<>>, seg |-> NoMatte], idx |-> 0, base |-> "",
          size |-> <<0, 0>>, replace_bg |-> FALSE, bg_color |-> WHITE_COLOR]

PipeOff ==
    /\ pc = "off"
    /\ job = NoJob
    /\ img = NoImage
    /\ removed = NoImage
    /\ handed = NoImage
    /\ stages = <<>>
    /\ result = NoItem

SessionInit ==
    /\ files = <<>>
    /\ raw_urls = <<>>
    /\ proc_urls = <<>>
    /\ proc_files = <<>>
    /\ page_urls = NotShown
    /\ page_files = NotShown
    /\ warnings = <<>>
    /\ error = NoError

\* The uploader changes to the list fs (possibly empty) and the script reruns
Upload(fs) ==
    /\ files' = IF fs # <<>> THEN fs ELSE files
    /\ warnings' = <<>>
    /\ UNCHANGED <<raw_urls, proc_urls, proc_files>>
    /\ Render(NoError)

\* "Preview URL Images" with the text area holding lines
PreviewUrls(lines) ==
    /\ raw_urls' = preview_urls(lines).raw
    /\ warnings' = preview_urls(lines).warned
    /\ UNCHANGED <<files, proc_urls, proc_files>>
    /\ Render(NoError)

\* "Process URL Images", offered while raw_urls is not empty
ProcessUrls(s) ==
    /\ raw_urls # <<>>
    /\ LET r == process_images(raw_urls, s.base, s.size, s.replace_bg,
                               IF s.replace_bg THEN s.color ELSE WHITE_COLOR)
       IN  /\ proc_urls' = IF r.ok THEN r.out ELSE proc_urls
           /\ warnings' = <<>>
           /\ UNCHANGED <<files, raw_urls, proc_files>>
           /\ Render(IF r.ok THEN NoError ELSE [src |-> "url", kind |-> r.kind])

\* "Process Local Images", offered while files is not empty
ProcessLocal(s) ==
    /\ files # <<>>
    /\ LET r == process_images(files, s.base, s.size, s.replace_bg,
                               IF s.replace_bg THEN s.color ELSE WHITE_COLOR)
       IN  /\ proc_files' = IF r.ok THEN r.out ELSE proc_files
           /\ warnings' = <<>>
           /\ UNCHANGED <<files, raw_urls, proc_urls>>
           /\ Render(IF r.ok THEN NoError ELSE [src |-> "local", kind |-> r.kind])

\* Any other interaction (a download button, a changed widget): a plain rerun
Rerun ==
    /\ warnings' = <<>>
    /\ UNCHANGED <<files, raw_urls, proc_urls, proc_files>>
    /\ Render(NoError)

DoUpload == \E fs \in UploadLists : Upload(fs) /\ UNCHANGED pipe
DoPreviewUrls == \E lines \in UrlLists : PreviewUrls(lines) /\ UNCHANGED pipe
DoProcessUrls == \E s \in Settings : ProcessUrls(s) /\ UNCHANGED pipe
DoProcessLocal == \E s \in Settings : ProcessLocal(s) /\ UNCHANGED pipe
DoRerun == Rerun /\ UNCHANGED pipe

Init == SessionInit /\ PipeOff

Next ==
    \/ DoUpload
    \/ DoPreviewUrls
    \/ DoProcessUrls
    \/ DoProcessLocal
    \/ DoRerun

vars == <<session, pipe>>

Spec == Init /\ [][Next]_vars

\* ---------------------------------------------------------------- PipeSpec
\* The images of PipeSpec: every size up to MaxDim, with and without an
\* alpha channel, pixels alternating between two colours.
Dims == {<<w, h>> : w \in 1..MaxDim, h \in 1..MaxDim}

Sample(mode, size) ==
    [mode |-> mode, size |-> size,
     px |-> [i \in 1..Area(size) |->
                IF mode = "RGBA"
                THEN IF i % 2 = 1 THEN <<100, 100, 100, 255>> ELSE <<0, 0, 255, 0>>
                ELSE IF i % 2 = 1 THEN GREY ELSE BLUE]]

\* What the network may answer for an image of n pixels: nothing, all
\* background, all foreground, a soft edge everywhere, or a foreground pixel
\* followed by background.
Mattes(n) ==
    { NoMatte,
      Matte([i \in 1..n |-> 0]),
      Matte([i \in 1..n |-> 255]),
      Matte([i \in 1..n |-> 128]),
      Matte([i \in 1..n |-> IF i = 1 THEN 255 ELSE 0]) }

PipeFiles ==
    { [name |-> "in", data |-> save_PNG(Sample(m, d)), seg |-> g] :
        m \in {"RGB", "RGBA"}, d \in Dims, g \in UNION {Mattes(Area(e)) : e \in Dims} }

PipeJobs ==
    { [f |-> f, idx |-> 1, base |-> "cleaned", size |-> d, replace_bg |-> r, bg_color |-> c] :
        f \in {x \in PipeFiles : x.seg.ok => Len(x.seg.matte) = x.data[2] * x.data[3]}
              \cup {[name |-> "in", data |-> <<60, 104, 116>>, seg |-> NoMatte]},
        d \in Dims, r \in BOOLEAN, c \in {WHITE_COLOR, BLUE, GREY} }

PipeInit ==
    /\ SessionInit
    /\ pc = "open"
    /\ job \in {j \in PipeJobs : ~j.replace_bg => j.bg_color = WHITE_COLOR}
    /\ img = NoImage
    /\ removed = NoImage
    /\ handed = NoImage
    /\ stages = <<>>
    /\ result = NoItem

\* img = Image.open(f)
StepOpen ==
    /\ pc = "open"
    /\ LET opened == Image_open(job.f.data)
       IN  /\ img' = opened.img
           /\ pc' = IF opened.ok THEN "remove" ELSE "raised"
    /\ UNCHANGED <<job, removed, handed, stages, result, session>>

\* img = remove_background(img)
StepRemove ==
    /\ pc = "remove"
    /\ IF job.f.seg.ok
       THEN /\ img' = remove_background(img, job.f.seg.matte)
            /\ removed' = img'
            /\ stages' = Append(stages, "remove_background")
            /\ pc' = after_remove(job.replace_bg)
       ELSE /\ pc' = "raised"
            /\ UNCHANGED <<img, removed, stages>>
    /\ UNCHANGED <<job, handed, result, session>>

\* img = add_bg(img, bg_color)
StepAddBg ==
    /\ pc = "add_bg"
    /\ img' = add_bg(img, job.bg_color)
    /\ stages' = Append(stages, "add_bg")
    /\ pc' = "resize"
    /\ UNCHANGED <<job, removed, handed, result, session>>

\* img = compress_and_resize(img, size)
StepResize ==
    /\ pc = "resize"
    /\ handed' = img
    /\ img' = compress_and_resize(img, job.size)
    /\ stages' = Append(stages, "compress_and_resize")
    /\ pc' = "save"
    /\ UNCHANGED <<job, removed, result, session>>

\* name, buf, img.save, buf.seek(0), out.append
StepSave ==
    /\ pc = "save"
    /\ result' = [name |-> FileName(job.base, job.idx),
                  buf |-> BytesIO(save_PNG(img)),
                  img |-> img]
    /\ stages' = Append(stages, "save")
    /\ pc' = "done"
    /\ UNCHANGED <<job, img, removed, handed, session>>

PipeNext ==
    \/ StepOpen
    \/ StepRemove
    \/ StepAddBg
    \/ StepResize
    \/ StepSave

PipeSpec == PipeInit /\ [][PipeNext]_vars

\* The steps and loop_body are two readings of the same statements
StepsAgreeWithLoopBody ==
    LET r == loop_body(job.f, job.idx, job.base, job.size, job.replace_bg, job.bg_color)
    IN  /\ pc = "done" => r.ok /\ r.item = result
        /\ pc = "raised" => ~r.ok

\* ------------------------------------------------------------------ claims
Decodable(f) == Image_open(f.data).ok
Processable(f) == Decodable(f) /\ f.seg.ok
BgColor(s) == IF s.replace_bg THEN s.color ELSE WHITE_COLOR

\* The image the pipeline yields for the file f alone under the settings s
ImageOf(f, s) == loop_body(f, 1, s.base, s.size, s.replace_bg, BgColor(s)).item.img

\* batch holds, in order, the images of the files of inputs that satisfy Keep
HoldsImagesOf(batch, inputs, Keep(_), s) ==
    LET kept == SelectSeq(inputs, Keep)
    IN  /\ Len(batch) = Len(kept)
        /\ \A k \in 1..Len(kept) : batch[k].img = ImageOf(kept[k], s)

Batches == {proc_urls, proc_files}

\* C1: a failure tied to one input never aborts its siblings: after a Process
\* run, the stored batch holds the result of every input of the batch that
\* can be decoded and segmented.
C1_SiblingsSurvive ==
    [][\A s \in Settings :
          /\ ProcessLocal(s) => HoldsImagesOf(proc_files', files, Processable, s)
          /\ ProcessUrls(s) => HoldsImagesOf(proc_urls', raw_urls, Processable, s)]_vars

FetchFails(u) == u.exc \/ u.status >= 400
Fetched(u) == ~FetchFails(u)

\* Every image among the inputs is one the network answers for
NetworkUp(inputs) == \A i \in 1..Len(inputs) : Decodable(inputs[i]) => inputs[i].seg.ok

\* C2: the number of results is the number of inputs minus those that failed
\* to fetch or to decode, and the results keep the order of their inputs
\* (stated for batches on whose images the network answers).
C2_CountAndOrder ==
    [][/\ \A lines \in UrlLists :
            PreviewUrls(lines) =>
                Len(raw_urls') = Len(lines) - Len(SelectSeq(lines, FetchFails))
       /\ \A s \in Settings :
            /\ ProcessUrls(s) /\ NetworkUp(raw_urls) =>
                 /\ Len(proc_urls') = Len(raw_urls) - Len(SelectSeq(raw_urls, LAMBDA f : ~Decodable(f)))
                 /\ HoldsImagesOf(proc_urls', raw_urls, Decodable, s)
            /\ ProcessLocal(s) /\ NetworkUp(files) =>
                 /\ Len(proc_files') = Len(files) - Len(SelectSeq(files, LAMBDA f : ~Decodable(f)))
                 /\ HoldsImagesOf(proc_files', files, Decodable, s)]_vars

Bases == {s.base : s \in Settings}

\* C3: in a batch returned by process_images the i-th result is named
\* "{base}_{i}.png", i counting from 1, and no two results share a name.
C3_Names ==
    \A batch \in Batches :
        /\ \E b \in Bases :
              \A i \in 1..Len(batch) : batch[i].name = b \o "_" \o ToString(i) \o ".png"
        /\ \A i, j \in 1..Len(batch) : i # j => batch[i].name # batch[j].name

C3_Witness == Len(proc_files) >= 2 /\ proc_files[2].name = "cleaned_2.png"

\* C4: a preview keeps exactly the buffers of the URLs fetched successfully,
\* in list order, warning about each of the others; processing them and the
\* ZIP then hold one entry per such URL (per such URL that serves an image
\* the pipeline can process).
C4_OneEntryPerFetchedUrl ==
    [][/\ \A lines \in UrlLists :
            PreviewUrls(lines) =>
                /\ LET got == SelectSeq(lines, Fetched)
                   IN  /\ Len(raw_urls') = Len(got)
                       /\ \A k \in 1..Len(got) : raw_urls'[k].data = got[k].content
                /\ LET lost == SelectSeq(lines, FetchFails)
                   IN  warnings' = [k \in 1..Len(lost) |-> lost[k].url]
       /\ \A s \in Settings :
            ProcessUrls(s) =>
                LET n == Len(SelectSeq(raw_urls, Processable))
                IN  /\ Len(proc_urls') = n
                    /\ Len(page_urls'.zip) = n]_vars

Pages == {<<page_urls, proc_urls>>, <<page_files, proc_files>>}

\* C5: the ZIP offered for a stored batch has exactly one entry per result,
\* in batch order, named as the result's download and holding its PNG bytes.
C5_Zip ==
    \A pb \in Pages :
        LET page == pb[1]
            batch == pb[2]
        IN  page.shown =>
              /\ Len(page.zip) = Len(batch)
              /\ Len(page.downloads) = Len(batch)
              /\ \A i \in 1..Len(batch) :
                    /\ page.zip[i].name = batch[i].name
                    /\ page.zip[i].name = page.downloads[i].file_name
                    /\ page.zip[i].data = batch[i].buf.data
                    /\ page.zip[i].data = page.downloads[i].data

C5_Witness == page_files.shown /\ Len(page_files.zip) >= 2 /\ page_urls.shown

\* C8: the PNG buffer of every stored result decodes to the image stored with
\* it, in every state previews, downloads and ZIP generations lead to.
C8_RoundTrip ==
    \A batch \in Batches :
        \A i \in 1..Len(batch) :
            LET back == Image_open(batch[i].buf.data)
            IN  /\ back.ok
                /\ back.img = batch[i].img

C8_Witness ==
    /\ proc_files # <<>>
    /\ proc_urls # <<>>
    /\ page_files.shown
    /\ raw_urls # <<>>
    /\ warnings # <<>>

\* Every result of batch was made by a run over inputs under the settings s
MadeFrom(batch, inputs, s) ==
    \A k \in 1..Len(batch) :
        \E i \in 1..Len(inputs) :
            LET r == loop_body(inputs[i], i, s.base, s.size, s.replace_bg, BgColor(s))
            IN  r.ok /\ batch[k].name = FileName(s.base, k) /\ batch[k].img = r.item.img

\* C10: a Process run replaces the stored batch of its source by the results
\* of that run over the current inputs and settings, none of an earlier run
\* remaining, and leaves the inputs and the batch of the other source as
\* they were.
C10_BatchReplaced ==
    [][\A s \in Settings :
          /\ ProcessLocal(s) =>
               /\ MadeFrom(proc_files', files, s)
               /\ UNCHANGED <<files, raw_urls, proc_urls>>
          /\ ProcessUrls(s) =>
               /\ MadeFrom(proc_urls', raw_urls, s)
               /\ UNCHANGED <<files, raw_urls, proc_files>>]_vars

\* ------------------------------------------------------- claims of PipeSpec
OpaqueRgb(im, size) ==
    /\ im.mode = "RGB"
    /\ im.size = size
    /\ Len(im.px) = Area(size)
    /\ \A i \in 1..Len(im.px) :
          /\ Len(im.px[i]) = 3
          /\ \A k \in 1..3 : im.px[i][k] \in 0..255

AllTransparent(im) ==
    /\ im.mode = "RGBA"
    /\ \A i \in 1..Len(im.px) : im.px[i][4] = 0

Resized == pc \in {"save", "done"}

\* C6: compress_and_resize returns an opaque RGB image of exactly the target
\* size for an input with or without alpha, so does every result; a
\* transparent pixel of a cut-out that was not composited comes out white.
C6_OpaqueTargetSize ==
    /\ Resized => OpaqueRgb(img, job.size)
    /\ pc = "done" => OpaqueRgb(result.img, job.size)
    /\ Resized /\ ~job.replace_bg /\ AllTransparent(handed) =>
          \A i \in 1..Len(img.px) : img.px[i] = WHITE_COLOR
    /\ Resized /\ handed.mode = "RGBA" /\ handed.size = job.size =>
          \A i \in 1..Len(img.px) : handed.px[i][4] = 0 => img.px[i] = WHITE_COLOR

C6_Witness ==
    /\ pc = "done"
    /\ ~job.replace_bg
    /\ handed.mode = "RGBA"
    /\ handed.size # job.size
    /\ AllTransparent(handed)

\* C7: add_bg on a fully transparent RGBA image returns an opaque RGB image
\* of the same size whose every pixel is the fill colour.
C7_TransparentBecomesColor ==
    pc = "resize" /\ job.replace_bg /\ AllTransparent(removed) =>
        /\ OpaqueRgb(img, removed.size)
        /\ \A i \in 1..Len(img.px) : img.px[i] = job.bg_color

C7_Witness ==
    /\ pc = "resize"
    /\ job.replace_bg
    /\ AllTransparent(removed)
    /\ job.bg_color = BLUE
    /\ Len(img.px) > 1

ExpectedStages(replace_bg) ==
    IF replace_bg
    THEN <<"remove_background", "add_bg", "compress_and_resize", "save">>
    ELSE <<"remove_background", "compress_and_resize", "save">>

IsPrefix(p, q) == Len(p) <= Len(q) /\ \A i \in 1..Len(p) : p[i] = q[i]

\* C9: the stages run in the order remove, composite, resize, encode, each
\* once; compositing runs exactly when replace_bg is set, and without it the
\* image handed to the resize is the output of the removal, mode and pixels.
C9_StageOrder ==
    /\ IsPrefix(stages, ExpectedStages(job.replace_bg))
    /\ pc = "done" => stages = ExpectedStages(job.replace_bg)
    /\ Resized /\ ~job.replace_bg => handed = removed
    /\ Resized /\ job.replace_bg => handed.mode = "RGB"

C9_Witness ==
    /\ pc = "done"
    /\ ~job.replace_bg
    /\ handed = removed
    /\ \E i \in 1..Len(removed.px) : removed.px[i][4] = 128

====
